---- MODULE Spec2Model ----
(***************************************************************************)
(* LLM Guard plugin for OpenClaw: the resilient scan client                *)
(* (llm-guard-client.js) and the three protected tools built on it         *)
(* (safe-web-fetch.js, safe-read.js, safe-browser.js).                     *)
(*                                                                         *)
(* JavaScript strings are sequences of tokens (a token is a chunk of       *)
(* characters that no operation of the plugin splits).  JavaScript objects *)
(* are records; a key an object does not have (or that holds undefined) is *)
(* a field the record does not have.  A field that may be null holds Null, *)
(* and Val(v) for the value v.                                             *)
(***************************************************************************)
EXTENDS Integers, Sequences, FiniteSets, TLC

VARIABLES
    now,              \* Date.now(), in ms
    ticks,            \* number of clock advances so far (bounds the model)
    service,          \* real state of the scan service
    fallbackOnError,  \* plugin configuration, fixed at registration
    healthCache,      \* per tool: its LLMGuardClient's healthCache
    req,              \* the tool request in flight (or idle)
    callers,          \* concurrent isHealthy calls on one client
    call,             \* one scanInput / scanOutput call on a client
    plugin,           \* what register(api) did with the plugin configuration
    strip             \* one use of stripSecurityWrapper: its input and output

vars ==
    <<now, ticks, service, fallbackOnError, healthCache, req, callers, call,
      plugin, strip>>

---------------------------------------------------------------------------
(* Bounds of the model *)

MaxTicks == 1
MaxClientTicks == 3
MaxOffset == 1
MaxScanTicks == 3

---------------------------------------------------------------------------
(* JavaScript values *)

Null == [null |-> TRUE]
Val(v) == [value |-> v]

Has(obj, k) == k \in DOMAIN obj

Put(obj, k, v) == [f \in DOMAIN obj \cup {k} |-> IF f = k THEN v ELSE obj[f]]

NL == "\n"

RECURSIVE Join(_, _)
Join(parts, sep) ==
    IF parts = <<>> THEN <<>>
    ELSE IF Len(parts) = 1 THEN parts[1]
    ELSE parts[1] \o sep \o Join(Tail(parts), sep)

RECURSIVE Split(_, _)
Split(text, sep) ==
    IF text = <<>> THEN << <<>> >>
    ELSE IF Head(text) = sep THEN << <<>> >> \o Split(Tail(text), sep)
    ELSE LET rest == Split(Tail(text), sep)
         IN  << <<Head(text)>> \o rest[1] >> \o Tail(rest)

\* Array.prototype.slice(start, end) for 0 <= start, on 0-based indices
Slice(arr, start, end) ==
    LET e == IF end > Len(arr) THEN Len(arr) ELSE end
    IN  IF start >= e THEN <<>> ELSE SubSeq(arr, start + 1, e)

IsWhitespace(tok) == tok \in {NL, " "}

RECURSIVE TrimStart(_)
TrimStart(text) ==
    IF text # <<>> /\ IsWhitespace(Head(text)) THEN TrimStart(Tail(text)) ELSE text

RECURSIVE TrimEnd(_)
TrimEnd(text) ==
    IF text # <<>> /\ IsWhitespace(text[Len(text)])
    THEN TrimEnd(SubSeq(text, 1, Len(text) - 1))
    ELSE text

Trim(text) == TrimEnd(TrimStart(text))

---------------------------------------------------------------------------
(* Scan service (Python, outside the plugin): scanners and the aggregator  *)

INJECT == "ignore previous instructions"
SECRET == "sk-live-4f9a"
MASK == "******"

PromptInjectionThreshold == 90
MaxScore == 100

ScannerNames == <<"PromptInjection", "Secrets">>

\* assess(text) -> PartialVerdict, scores in hundredths
PromptInjectionScanner(text) ==
    LET score == IF \E i \in 1..Len(text) : text[i] = INJECT THEN MaxScore ELSE 0
    IN  [scannerName |-> "PromptInjection",
         passed |-> score < PromptInjectionThreshold,
         score |-> score,
         sanitizedText |-> text]

SecretsScanner(text) ==
    LET found == \E i \in 1..Len(text) : text[i] = SECRET
    IN  [scannerName |-> "Secrets",
         passed |-> ~found,
         score |-> IF found THEN MaxScore ELSE 0,
         sanitizedText |-> [i \in 1..Len(text) |->
                               IF text[i] = SECRET THEN MASK ELSE text[i]]]

Max(a, b) == IF a >= b THEN a ELSE b

\* aggregate: scanners run in registration order on the running text
Aggregate(text) ==
    LET p1 == PromptInjectionScanner(text)
        p2 == SecretsScanner(p1.sanitizedText)
        failed == SelectSeq(<<p1, p2>>, LAMBDA p : ~p.passed)
    IN  [sanitized_content |-> p2.sanitizedText,
         is_valid |-> failed = <<>>,
         risk_score |-> IF failed = <<>> THEN 0
                        ELSE Max(IF p1.passed THEN 0 ELSE p1.score,
                                 IF p2.passed THEN 0 ELSE p2.score),
         threats_detected |-> [i \in 1..Len(failed) |-> failed[i].scannerName]]

ServiceStates == {"healthy", "error", "down"}

---------------------------------------------------------------------------
(* LLMGuardClient (llm-guard-client.js) *)

HealthCacheTTL == 30000
ProbeTimeout == 2000
ScanTimeout == 5000

NewHealthCache == [healthy |-> Null, timestamp |-> 0]

\* mutant: the cached value never expires
CacheFresh_NeverExpires(cache, t) ==
    cache.healthy # Null

\* isHealthy, lines 19-23: the cached value is used without a probe
CacheFresh(cache, t) ==
    cache.healthy # Null /\ (t - cache.timestamp) < HealthCacheTTL

\* GET /health as the service answers it: "ok", "not_ok" (a non-success
\* status) or "throws" (connection refused, or aborted after ProbeTimeout)
ProbeOutcome(svc) ==
    CASE svc = "healthy" -> "ok"
      [] svc = "error" -> "not_ok"
      [] OTHER -> "throws"

\* mutant: only a successful probe is stored in the cache
ProbeResult_FailureNotStored(outcome, t) ==
    IF outcome = "ok"
    THEN [healthy |-> Val(TRUE), timestamp |-> t]
    ELSE NewHealthCache

\* isHealthy, lines 25-40: the cache written when the probe ends; `t` is the
\* Date.now() taken when isHealthy was called
ProbeResult(outcome, t) ==
    IF outcome = "throws"
    THEN [healthy |-> Val(FALSE), timestamp |-> t]
    ELSE [healthy |-> Val(outcome = "ok"), timestamp |-> t]

ErrStatus500 == <<"LLM Guard returned ", "500">>
ErrAborted == <<"The operation was aborted.">>
ErrBody == <<"Premature close">>

\* scanInput, lines 60-70: how `await fetch(...)` ends
\* [ok |-> TRUE] (a success status) or an Error with a message
ScanHeaderOutcomes(svc) ==
    CASE svc = "healthy" -> {[ok |-> TRUE]}
      [] svc = "error" -> {[ok |-> FALSE, message |-> ErrStatus500]}
      [] OTHER -> {[ok |-> FALSE, message |-> ErrAborted]}

\* scanInput, line 72: how `await response.json()` ends
ScanBodyOutcomes(svc, content) ==
    IF svc = "healthy"
    THEN {[ok |-> TRUE, verdict |-> Aggregate(content)]}
    ELSE {[ok |-> FALSE, message |-> ErrBody]}

---------------------------------------------------------------------------
(* safe-web-fetch.js *)

NOTICE == "SECURITY NOTICE:"
BEGIN_MARK == "<<<EXTERNAL_UNTRUSTED_CONTENT>>>"
END_MARK == "<<<END_EXTERNAL_UNTRUSTED_CONTENT>>>"
SOURCE == "Source:"
DASHES == "---"

\* The wrapper OpenClaw's web_fetch puts around page text (lines 12-18)
Wrap(page) ==
    <<NOTICE, " The following content is from an EXTERNAL, UNTRUSTED source.",
      NL, NL, BEGIN_MARK, NL, SOURCE, " Web Fetch", NL, DASHES, NL>>
    \o page \o <<NL, END_MARK>>

\* index of the first "\n\n" at or after position i, 0 if none
RECURSIVE FirstBlankLine(_, _)
FirstBlankLine(text, i) ==
    IF i + 1 > Len(text) THEN 0
    ELSE IF text[i] = NL /\ text[i + 1] = NL THEN i
    ELSE FirstBlankLine(text, i + 1)

\* text.replace(/^SECURITY NOTICE:[\s\S]*?\n\n/m, ''): the first match only
RECURSIVE StripNotice(_, _)
StripNotice(text, i) ==
    IF i > Len(text) THEN text
    ELSE IF text[i] = NOTICE /\ (i = 1 \/ text[i - 1] = NL)
            /\ FirstBlankLine(text, i + 1) # 0
         THEN SubSeq(text, 1, i - 1)
              \o SubSeq(text, FirstBlankLine(text, i + 1) + 2, Len(text))
         ELSE StripNotice(text, i + 1)

\* length of the match of Source:[^\n]*\n---\n? at the head of text, 0 if none
RECURSIVE SourceLineLen(_, _)
SourceLineLen(text, i) ==
    IF i > Len(text) THEN 0
    ELSE IF text[i] = NL
         THEN IF i + 1 <= Len(text) /\ text[i + 1] = DASHES
              THEN IF i + 2 <= Len(text) /\ text[i + 2] = NL THEN i + 2 ELSE i + 1
              ELSE 0
         ELSE SourceLineLen(text, i + 1)

BeginMarkLen(text) ==
    IF Len(text) >= 3 /\ text[1] = BEGIN_MARK /\ text[2] = NL /\ text[3] = SOURCE
    THEN LET n == SourceLineLen(SubSeq(text, 4, Len(text)), 1)
         IN  IF n = 0 THEN 0 ELSE 3 + n
    ELSE 0

\* cleaned.replace(/<<<EXTERNAL_UNTRUSTED_CONTENT>>>\nSource:[^\n]*\n---\n?/g, '')
RECURSIVE StripBeginMarks(_)
StripBeginMarks(text) ==
    IF text = <<>> THEN <<>>
    ELSE IF BeginMarkLen(text) > 0
         THEN StripBeginMarks(SubSeq(text, BeginMarkLen(text) + 1, Len(text)))
         ELSE <<Head(text)>> \o StripBeginMarks(Tail(text))

\* cleaned.replace(/<<<END_EXTERNAL_UNTRUSTED_CONTENT>>>/g, '')
StripEndMarks(text) == SelectSeq(text, LAMBDA tok : tok # END_MARK)

\* lines 19-30
stripSecurityWrapper(text) ==
    IF text = <<>> THEN text
    ELSE Trim(StripEndMarks(StripBeginMarks(StripNotice(text, 1))))

ErrUnavailable == <<"LLM Guard unavailable">>
ErrBlocked == <<"Content blocked: prompt injection detected">>

\* mutant: the strict branch forgets to clear the text
WebUnhealthy_KeepsText(parsed, fallback) ==
    IF fallback
    THEN LET p == Put(parsed, "security", [scanned |-> FALSE, warning |-> ErrUnavailable])
         IN  [content |-> p, details |-> p]
    ELSE [content |-> Put(parsed, "error", ErrUnavailable)]

\* execute, lines 91-99: isHealthy returned false
WebUnhealthy(parsed, fallback) ==
    IF fallback
    THEN LET p == Put(parsed, "security", [scanned |-> FALSE, warning |-> ErrUnavailable])
         IN  [content |-> p, details |-> p]
    ELSE [content |-> Put(Put(parsed, "error", ErrUnavailable), "text", Null)]

\* mutant: the blocked response is built from parsed without clearing the text
WebBlocked_KeepsText(parsed, scanResult) ==
    [content |->
        Put(Put(Put(parsed, "blocked", TRUE), "error", ErrBlocked),
            "security",
            [scanned |-> TRUE, blocked |-> TRUE, is_valid |-> FALSE,
             risk_score |-> scanResult.risk_score,
             threats_detected |-> scanResult.threats_detected])]

\* mutant: the blocked response lists no threat
WebBlocked_NoThreats(parsed, scanResult) ==
    [content |->
        Put(Put(Put(Put(parsed, "text", Null), "blocked", TRUE), "error", ErrBlocked),
            "security",
            [scanned |-> TRUE, blocked |-> TRUE, is_valid |-> FALSE,
             risk_score |-> scanResult.risk_score,
             threats_detected |-> <<>>])]

\* mutant: the blocked response shows what the scanner made of the text
WebBlocked_WithPreview(parsed, scanResult) ==
    [content |->
        Put(Put(Put(Put(Put(parsed, "text", Null), "blocked", TRUE), "error", ErrBlocked),
                "preview", scanResult.sanitized_content),
            "security",
            [scanned |-> TRUE, blocked |-> TRUE, is_valid |-> FALSE,
             risk_score |-> scanResult.risk_score,
             threats_detected |-> scanResult.threats_detected])]

\* execute, lines 108-118: the verdict is not valid
WebBlocked(parsed, scanResult) ==
    [content |->
        Put(Put(Put(Put(parsed, "text", Null), "blocked", TRUE), "error", ErrBlocked),
            "security",
            [scanned |-> TRUE, blocked |-> TRUE, is_valid |-> FALSE,
             risk_score |-> scanResult.risk_score,
             threats_detected |-> scanResult.threats_detected])]

\* mutant: the passed response carries the scanner's sanitized content
WebPassed_Sanitized(parsed, scanResult) ==
    LET p == Put(Put(Put(parsed, "text", Val(scanResult.sanitized_content)),
                     "blocked", FALSE), "security",
                 [scanned |-> TRUE, blocked |-> FALSE, is_valid |-> TRUE,
                  risk_score |-> scanResult.risk_score, threats_detected |-> <<>>])
    IN  [content |-> p, details |-> p]

\* execute, lines 120-124: the verdict is valid
WebPassed(parsed, scanResult) ==
    LET p == Put(Put(parsed, "blocked", FALSE), "security",
                 [scanned |-> TRUE, blocked |-> FALSE, is_valid |-> TRUE,
                  risk_score |-> scanResult.risk_score, threats_detected |-> <<>>])
    IN  [content |-> p, details |-> p]

\* execute, lines 105-124
WebScanned(parsed, scanResult) ==
    IF ~scanResult.is_valid THEN WebBlocked(parsed, scanResult)
    ELSE WebPassed(parsed, scanResult)

\* execute, lines 126-134: scanInput raised
WebScanFailed(parsed, message, fallback) ==
    IF fallback
    THEN LET p == Put(parsed, "security", [scanned |-> FALSE, warning |-> message])
         IN  [content |-> p, details |-> p]
    ELSE [content |-> Put(Put(parsed, "error", message), "text", Null)]

---------------------------------------------------------------------------
(* safe-read.js *)

SEP == "/"
Cwd == <<"home", "u">>

RECURSIVE NormalizeSegments(_, _)
NormalizeSegments(segs, stack) ==
    IF segs = <<>> THEN stack
    ELSE LET seg == Head(segs)
         IN  IF seg = <<>> \/ seg = <<".">>
             THEN NormalizeSegments(Tail(segs), stack)
             ELSE IF seg = <<"..">>
             THEN NormalizeSegments(Tail(segs),
                      IF stack = <<>> THEN stack
                      ELSE SubSeq(stack, 1, Len(stack) - 1))
             ELSE NormalizeSegments(Tail(segs), Append(stack, seg))

\* path.resolve(filePath): absolute, with "." and ".." segments resolved
resolve(filePath) ==
    LET absolute == filePath # <<>> /\ Head(filePath) = SEP
        base == IF absolute THEN <<>> ELSE [i \in 1..Len(Cwd) |-> <<Cwd[i]>>]
    IN  <<SEP>> \o Join(NormalizeSegments(Split(filePath, SEP), base), <<SEP>>)

\* String.prototype.toUpperCase on the file-name tokens of the model
ToUpper(tok) ==
    CASE tok \in {"soul.md", "Soul.md", "SOUL.md"} -> "SOUL.MD"
      [] tok \in {"identity.md", "IDENTITY.md"} -> "IDENTITY.MD"
      [] tok \in {"user.md", "USER.md"} -> "USER.MD"
      [] tok \in {"tools.md", "TOOLS.md"} -> "TOOLS.MD"
      [] tok \in {"agents.md", "AGENTS.md"} -> "AGENTS.MD"
      [] OTHER -> tok

\* /NAME\.md$/i, lines 10-14
EndsWithIgnoreCase(path, name) ==
    path # <<>> /\ ToUpper(path[Len(path)]) = name

\* /\.openclaw\/DIR\//, lines 15-16
ContainsOpenclawDir(path, dir) ==
    \E i \in 1..Len(path) :
        /\ i + 3 <= Len(path)
        /\ path[i] = ".openclaw" /\ path[i + 1] = SEP
        /\ path[i + 2] = dir /\ path[i + 3] = SEP

\* lines 9-23
isTrustedPath(filePath) ==
    LET normalized == resolve(filePath)
    IN  \/ \E name \in {"IDENTITY.MD", "SOUL.MD", "USER.MD", "TOOLS.MD", "AGENTS.MD"} :
              EndsWithIgnoreCase(normalized, name)
        \/ ContainsOpenclawDir(normalized, "workspace")
        \/ ContainsOpenclawDir(normalized, "memory")

\* lines 45-51: offset and limit applied to the file's lines
ApplyOffsetLimit(content, params) ==
    IF Has(params, "offset") \/ Has(params, "limit")
    THEN LET lines == Split(content, NL)
             start == IF Has(params, "offset") THEN params.offset ELSE 0
             end == IF Has(params, "limit") /\ params.limit # 0
                    THEN start + params.limit ELSE Len(lines)
         IN  Join(Slice(lines, start, end), <<NL>>)
    ELSE content

\* mutant: the reason of the read failure is dropped
ReadFailed_NoReason(filePath, message) ==
    [success |-> FALSE, error |-> <<"Failed to read file">>, path |-> filePath]

\* lines 52-58
ReadFailed(filePath, message) ==
    [success |-> FALSE, error |-> <<"Failed to read file: ">> \o message,
     path |-> filePath]

\* lines 61-72
ReadTrusted(filePath, content) ==
    [success |-> TRUE, content |-> content, path |-> filePath,
     security |-> [scanned |-> FALSE, trusted_path |-> TRUE]]

\* mutant: the fallback branch returns the content without a warning
ReadUnhealthy_NoWarning(filePath, content, fallback) ==
    IF fallback
    THEN [success |-> TRUE, content |-> content, path |-> filePath]
    ELSE [success |-> FALSE,
          error |-> <<"LLM Guard service unavailable and fallback disabled">>,
          path |-> filePath]

\* lines 77-92: isHealthy returned false
ReadUnhealthy(filePath, content, fallback) ==
    IF fallback
    THEN [success |-> TRUE, content |-> content, path |-> filePath,
          warning |-> <<"LLM Guard service unavailable - content not scanned">>]
    ELSE [success |-> FALSE,
          error |-> <<"LLM Guard service unavailable and fallback disabled">>,
          path |-> filePath]

\* mutant: the content is returned under a line that says it was scanned
ReadScanned_Annotated(filePath, scanResult) ==
    [success |-> TRUE,
     content |-> <<"[Scanned by LLM Guard]", NL>> \o scanResult.sanitized_content,
     path |-> filePath,
     security |-> [scanned |-> TRUE, is_valid |-> scanResult.is_valid,
                   risk_score |-> scanResult.risk_score,
                   threats_detected |-> scanResult.threats_detected]]

\* lines 97-113
ReadScanned(filePath, scanResult) ==
    [success |-> TRUE, content |-> scanResult.sanitized_content, path |-> filePath,
     security |-> [scanned |-> TRUE, is_valid |-> scanResult.is_valid,
                   risk_score |-> scanResult.risk_score,
                   threats_detected |-> scanResult.threats_detected]]

\* mutant: the content is returned whatever fallbackOnError says
ReadScanFailed_IgnoresFallback(filePath, content, message, fallback) ==
    [success |-> TRUE, content |-> content, path |-> filePath,
     warning |-> <<"LLM Guard scan failed: ">> \o message]

\* lines 114-130: scanInput raised
ReadScanFailed(filePath, content, message, fallback) ==
    IF fallback
    THEN [success |-> TRUE, content |-> content, path |-> filePath,
          warning |-> <<"LLM Guard scan failed: ">> \o message]
    ELSE [success |-> FALSE, error |-> <<"LLM Guard scan failed: ">> \o message,
          path |-> filePath]

---------------------------------------------------------------------------
(* safe-browser.js *)

\* lines 12-17
jsonResult(payload) == [content |-> payload, details |-> payload]

\* lines 110-112
addSecurity(result, security) == Put(result, "security", security)

\* what scanContent hands back: a value, or an exception
Returned(v) == [threw |-> FALSE, value |-> v]
Threw(message) == [threw |-> TRUE, message |-> message]

\* scanContent, lines 69-79: isHealthy returned false
ScanContentUnhealthy(text, fallback) ==
    IF fallback
    THEN Returned([content |->
                      <<"[Warning: LLM Guard unavailable - content not scanned]", NL, NL>>
                      \o text,
                   scanned |-> FALSE,
                   warning |-> <<"LLM Guard service unavailable">>])
    ELSE Threw(<<"LLM Guard service unavailable and fallback disabled">>)

\* threats_detected.join(', ')
JoinNames(names) == Join([i \in 1..Len(names) |-> <<names[i]>>], <<", ">>)

\* mutant: the warning names only the first threat
WarningPrefix_FirstThreat(scanResult) ==
    IF ~scanResult.is_valid
    THEN <<"[Security Warning: Threats detected - ", scanResult.threats_detected[1],
           "]", NL, NL>>
    ELSE <<>>

\* scanContent, lines 84-87
WarningPrefix(scanResult) ==
    IF ~scanResult.is_valid
    THEN <<"[Security Warning: Threats detected - ">>
         \o JoinNames(scanResult.threats_detected) \o <<"]", NL, NL>>
    ELSE <<>>

\* scanContent, lines 82-95
ScanContentScanned(scanResult) ==
    Returned([content |-> WarningPrefix(scanResult) \o scanResult.sanitized_content,
              scanned |-> TRUE,
              is_valid |-> scanResult.is_valid,
              risk_score |-> scanResult.risk_score,
              threats_detected |-> scanResult.threats_detected])

\* scanContent, lines 96-106: scanInput raised
ScanContentFailed(text, message, fallback) ==
    IF fallback
    THEN Returned([content |-> <<"[Warning: LLM Guard scan failed - ">> \o message
                                \o <<"]", NL, NL>> \o text,
                   scanned |-> FALSE,
                   warning |-> <<"Scan failed: ">> \o message])
    ELSE Threw(message)

\* the security block execute builds from scanContent's result
\* (lines 251-257, 291-297, 348-354)
SecurityOf(scanResult) ==
    [k \in DOMAIN scanResult \cap
           {"scanned", "is_valid", "risk_score", "threats_detected", "warning"}
        |-> scanResult[k]]

PassThroughActions ==
    {"status", "start", "stop", "profiles", "tabs", "open", "focus", "close",
     "navigate", "screenshot", "pdf", "upload", "dialog"}

SupportedActions == PassThroughActions \cup {"snapshot", "console", "act"}

\* the note of each action that is not scanned (lines 157-211, 265-276, 308-331)
NoteOf(action) ==
    CASE action = "status" -> <<"Status check - no content to scan">>
      [] action = "start" -> <<"Start action - no content to scan">>
      [] action = "stop" -> <<"Stop action - no content to scan">>
      [] action = "profiles" -> <<"Profiles list - no content to scan">>
      [] action = "tabs" -> <<"Tab list - no content to scan">>
      [] action = "open" -> <<"Tab open - no content to scan">>
      [] action = "focus" -> <<"Tab focus - no content to scan">>
      [] action = "close" -> <<"Tab close - no content to scan">>
      [] action = "navigate" -> <<"Navigation action - no content to scan">>
      [] action = "screenshot" -> <<"Screenshot action - binary content not scanned">>
      [] action = "pdf" -> <<"PDF action - binary content not scanned">>
      [] action = "upload" -> <<"Upload action - no content to scan">>
      [] OTHER -> <<"Dialog action - no content to scan">>

\* lines 240, 287: the text of ARIA nodes and of console messages
AriaText(nodes) ==
    Join([i \in 1..Len(nodes) |->
             <<nodes[i].role, ": ">> \o nodes[i].name \o <<" ">> \o nodes[i].value],
         <<NL>>)

ConsoleText(messages) ==
    Join([i \in 1..Len(messages) |-> messages[i].text], <<NL>>)

\* execute: the text of the upstream result that is scanned, <<>> if none
\* (lines 234-241, 286-287, 345)
\* mutant: the value of every act request is scanned, whatever its kind
TextToScan_AnyActValue(params, result) ==
    CASE params.action = "snapshot" /\ Has(result, "snapshot") -> result.snapshot
      [] params.action = "act" /\ Has(result, "value") -> result.value
      [] OTHER -> <<>>

TextToScan(params, result) ==
    CASE params.action = "snapshot" ->
             IF result.format = "ai" /\ Has(result, "snapshot") THEN result.snapshot
             ELSE IF result.format = "aria" /\ Has(result, "nodes")
                  THEN AriaText(result.nodes)
             ELSE <<>>
      [] params.action = "console" ->
             IF Has(result, "messages") THEN ConsoleText(result.messages) ELSE <<>>
      [] params.action = "act" ->
             IF params.request.kind = "evaluate" /\ Has(result, "value")
             THEN result.value ELSE <<>>
      [] OTHER -> <<>>

\* execute: the response when nothing of the result is scanned
BrowserNotScanned(params, result) ==
    CASE params.action \in PassThroughActions ->
             jsonResult(addSecurity(result, [scanned |-> FALSE,
                                             note |-> NoteOf(params.action)]))
      [] params.action = "snapshot" ->
             jsonResult(Put(result, "security",
                            [scanned |-> FALSE, note |-> <<"No text content to scan">>]))
      [] params.action = "console" ->
             jsonResult(Put(result, "security",
                            [scanned |-> FALSE, note |-> <<"No console messages">>]))
      [] OTHER ->
             jsonResult(Put(result, "security",
                            [scanned |-> FALSE,
                             note |-> <<params.request.kind,
                                        " action - no content to scan">>]))

\* execute, lines 372-380: the catch block
BrowserCaught(params, message) ==
    jsonResult([error |-> message, success |-> FALSE, action |-> params.action])

\* mutant: an error thrown by scanContent leaves execute uncaught
BrowserMediated_Rethrows(params, result, sc) ==
    IF sc.threw THEN sc
    ELSE jsonResult(Put(result, "security", SecurityOf(sc.value)))

\* execute: the response once scanContent has ended
\* (lines 244-262, 290-305, 346-359)
BrowserMediated(params, result, sc) ==
    IF sc.threw THEN BrowserCaught(params, sc.message)
    ELSE LET security == SecurityOf(sc.value)
         IN  CASE params.action = "snapshot" ->
                      jsonResult(Put(IF result.format = "ai"
                                     THEN Put(result, "snapshot", sc.value.content)
                                     ELSE result,
                                     "security", security))
               [] params.action = "console" ->
                      jsonResult(Put(result, "security", security))
               [] OTHER ->
                      jsonResult(Put(Put(result, "value", sc.value.content),
                                     "security", security))

\* execute: what returns before any request to the browser control server
\* (lines 201-203, 335-337, 362-370)
BrowserRejects(params) ==
    \/ params.action \notin SupportedActions
    \/ params.action = "navigate" /\ ~Has(params, "targetUrl")
    \/ params.action = "act" /\ ~Has(params, "request")

BrowserRejected(params) ==
    CASE params.action = "navigate" ->
             jsonResult([error |-> <<"targetUrl is required for navigate action">>,
                         success |-> FALSE])
      [] params.action = "act" ->
             jsonResult([error |-> <<"request object is required for act action">>,
                         success |-> FALSE])
      [] OTHER ->
             jsonResult([error |-> <<"Unknown browser action: ", params.action>>,
                         success |-> FALSE,
                         supportedActions |-> SupportedActions])

---------------------------------------------------------------------------
(* Inputs: what the wrapped tools return *)

Contents ==
    {<<"hello">>,
     <<INJECT>>,
     <<"key=", SECRET>>,
     <<"hello", NL, INJECT, NL, SECRET>>,
     <<>>}

URL == <<"https://example.com/page">>

\* originalResult of web_fetch: content[0].text parsed, or unparseable
WebOriginalResults ==
    {[content |-> [unparsed |-> <<"<html>">>]],
     [content |-> [url |-> URL, error |-> <<"fetch failed">>]],
     [content |-> [url |-> URL, status |-> 200, text |-> Val(<<>>)]]}
    \cup {[content |-> [url |-> URL, status |-> 200, text |-> Val(Wrap(page))]] :
             page \in Contents}

Paths ==
    {<<SEP, "home", SEP, "u", SEP, ".openclaw", SEP, "workspace", SEP, "notes.md">>,
     <<SEP, "tmp", SEP, "SOUL.md">>,
     <<SEP, "home", SEP, "u", SEP, ".openclaw", SEP, "workspace", SEP, "..", SEP,
       "..", SEP, "..", SEP, "..", SEP, "tmp", SEP, "page.html">>}

Offsets == 0..MaxOffset

ReadParams ==
    {[path |-> p] : p \in Paths}
    \cup {[path |-> p, offset |-> o] : p \in Paths, o \in Offsets}
    \cup {[path |-> p, limit |-> l] : p \in Paths, l \in Offsets}
    \cup {[path |-> p, offset |-> o, limit |-> l] :
             p \in Paths, o \in Offsets, l \in Offsets}

\* readFile(absolutePath, 'utf-8')
FileReadOutcomes ==
    {Threw(<<"ENOENT: no such file or directory">>)}
    \cup {Returned(c) : c \in Contents}

BrowserParams ==
    {[action |-> a] : a \in (SupportedActions \ {"navigate"}) \cup {"scroll"}}
    \cup {[action |-> "navigate"],
          [action |-> "navigate", targetUrl |-> URL],
          [action |-> "act", request |-> [kind |-> "click"]],
          [action |-> "act", request |-> [kind |-> "evaluate"]]}

AriaNodes ==
    {<< [role |-> "heading", name |-> <<"hello">>, value |-> <<>>] >>,
     << [role |-> "link", name |-> <<INJECT>>, value |-> <<>>],
        [role |-> "textbox", name |-> <<"key">>, value |-> <<SECRET>>] >>}

ConsoleMessages ==
    {<<>>,
     << [text |-> <<"hello">>] >>,
     << [text |-> <<INJECT>>], [text |-> <<"key=", SECRET>>] >>}

\* browserRequest(...), lines 29-59: the control server's answer
BrowserResults(params) ==
    {Threw(<<"Browser request failed: ", "500", " ", "no tab">>)}
    \cup
    CASE params.action = "snapshot" ->
             {Returned([format |-> "ai", url |-> URL, snapshot |-> c]) : c \in Contents}
             \cup {Returned([format |-> "aria", url |-> URL, nodes |-> n]) :
                      n \in AriaNodes}
             \cup {Returned([format |-> "ai", url |-> URL])}
      [] params.action = "console" ->
             {Returned([ok |-> TRUE, messages |-> m]) : m \in ConsoleMessages}
             \cup {Returned([ok |-> TRUE])}
      [] params.action = "act" ->
             {Returned([ok |-> TRUE, value |-> c]) : c \in Contents}
             \cup {Returned([ok |-> TRUE])}
      [] OTHER -> {Returned([ok |-> TRUE])}

---------------------------------------------------------------------------
(* One tool request: execute, from the call to the response *)

Tools == {"safe_web_fetch", "safe_read", "safe_browser"}

StartTime == 4 * HealthCacheTTL

Idle ==
    [pc |-> "idle", tool |-> "none", params |-> [none |-> TRUE],
     orig |-> [none |-> TRUE], content |-> <<>>, probeAt |-> 0, callAt |-> 0,
     healthy |-> Null, nHealth |-> 0, nProbe |-> 0, nScan |-> 0,
     scanEnd |-> "none", verdict |-> Null, message |-> <<>>, sc |-> Null,
     route |-> "none", resp |-> [none |-> TRUE]]

Call(tool, params) ==
    [Idle EXCEPT !.pc = "upstream", !.tool = tool, !.params = params, !.callAt = now]

Done(r, route, resp) ==
    [r EXCEPT !.pc = "done", !.route = route, !.resp = resp]

\* safe_browser: what scanContent handed back to execute
ScOf(r, sc) == IF r.tool = "safe_browser" THEN Val(sc) ELSE Null

\* the response of each tool when isHealthy returned false
UnhealthyResponse(r) ==
    CASE r.tool = "safe_web_fetch" -> WebUnhealthy(r.orig, fallbackOnError)
      [] r.tool = "safe_read" ->
             ReadUnhealthy(r.params.path, r.content, fallbackOnError)
      [] OTHER ->
             BrowserMediated(r.params, r.orig,
                             ScanContentUnhealthy(r.content, fallbackOnError))

\* the response of each tool when scanInput returned a verdict
ScannedResponse(r, scanResult) ==
    CASE r.tool = "safe_web_fetch" -> WebScanned(r.orig, scanResult)
      [] r.tool = "safe_read" -> ReadScanned(r.params.path, scanResult)
      [] OTHER -> BrowserMediated(r.params, r.orig, ScanContentScanned(scanResult))

\* mutant: a failed scan is answered as if the service were merely unhealthy,
\* without the failure reason
ScanFailedResponse_NoReason(r, message) ==
    UnhealthyResponse(r)

\* the response of each tool when scanInput raised
ScanFailedResponse(r, message) ==
    CASE r.tool = "safe_web_fetch" -> WebScanFailed(r.orig, message, fallbackOnError)
      [] r.tool = "safe_read" ->
             ReadScanFailed(r.params.path, r.content, message, fallbackOnError)
      [] OTHER ->
             BrowserMediated(r.params, r.orig,
                             ScanContentFailed(r.content, message, fallbackOnError))

\* mutant: the scan is attempted whatever isHealthy returned
AfterHealth_ScansAnyway(r, healthy) ==
    [r EXCEPT !.pc = "scan_headers", !.healthy = Val(healthy),
              !.nScan = @ + 1, !.callAt = now]

\* `if (!healthy) ... ` and the call of scanInput that follows
\* (safe-web-fetch.js 91-106, safe-read.js 76-97, safe-browser.js 69-82)
AfterHealth(r, healthy) ==
    IF healthy
    THEN [r EXCEPT !.pc = "scan_headers", !.healthy = Val(TRUE),
                   !.nScan = @ + 1, !.callAt = now]
    ELSE Done([r EXCEPT !.healthy = Val(FALSE),
                        !.sc = ScOf(r, ScanContentUnhealthy(r.content, fallbackOnError))],
              "unhealthy", UnhealthyResponse(r))

\* `await llmGuard.isHealthy()`: llm-guard-client.js 19-23, then the probe
CallIsHealthy(r) ==
    IF CacheFresh(healthCache[r.tool], now)
    THEN AfterHealth([r EXCEPT !.nHealth = @ + 1], healthCache[r.tool].healthy.value)
    ELSE [r EXCEPT !.pc = "health", !.nHealth = @ + 1, !.nProbe = @ + 1,
                   !.probeAt = now]

\* mutant: a failed scan is attempted once more
ScanRaised_RetriesOnce(r, message) ==
    IF r.nScan < 2
    THEN [r EXCEPT !.pc = "scan_headers", !.nScan = @ + 1]
    ELSE Done([r EXCEPT !.scanEnd = "raised", !.message = message,
                        !.sc = ScOf(r, ScanContentFailed(r.content, message,
                                                         fallbackOnError))],
              "scan_failed", ScanFailedResponse(r, message))

\* mutant: a failed scan defaults to a clean verdict
ScanRaised_DefaultsToAllow(r, message) ==
    Done([r EXCEPT !.scanEnd = "raised", !.message = message],
         "scan_failed",
         ScannedResponse(r, [sanitized_content |-> r.content, is_valid |-> TRUE,
                             risk_score |-> 0, threats_detected |-> <<>>]))

ScanRaised(r, message) ==
    Done([r EXCEPT !.scanEnd = "raised", !.message = message,
                   !.sc = ScOf(r, ScanContentFailed(r.content, message, fallbackOnError))],
         "scan_failed", ScanFailedResponse(r, message))

ScanReturned(r, scanResult) ==
    Done([r EXCEPT !.scanEnd = "verdict", !.verdict = Val(scanResult),
                   !.sc = ScOf(r, ScanContentScanned(scanResult))],
         "scanned", ScannedResponse(r, scanResult))

\* safe-web-fetch.js 72-106, once the original tool has returned
WebAfterOriginal(r, originalResult) ==
    LET parsed == originalResult.content
    IN  IF \/ Has(parsed, "unparsed")
           \/ Has(parsed, "error")
           \/ ~Has(parsed, "text")
           \/ parsed.text = Null
           \/ parsed.text.value = <<>>
        THEN Done([r EXCEPT !.orig = originalResult], "upstream_failed", originalResult)
        ELSE CallIsHealthy([r EXCEPT !.orig = parsed,
                                     !.content = stripSecurityWrapper(parsed.text.value)])

\* mutant: the trusted-path check is skipped
ReadAfterFile_ScansTrusted(r, outcome) ==
    IF outcome.threw
    THEN Done([r EXCEPT !.orig = outcome], "upstream_failed",
              ReadFailed(r.params.path, outcome.message))
    ELSE CallIsHealthy([r EXCEPT !.orig = [file |-> outcome.value],
                                 !.content = ApplyOffsetLimit(outcome.value, r.params)])

\* safe-read.js 39-74, once readFile has ended
ReadAfterFile(r, outcome) ==
    IF outcome.threw
    THEN Done([r EXCEPT !.orig = outcome], "upstream_failed",
              ReadFailed(r.params.path, outcome.message))
    ELSE LET content == ApplyOffsetLimit(outcome.value, r.params)
             r1 == [r EXCEPT !.orig = [file |-> outcome.value], !.content = content]
         IN  IF isTrustedPath(r.params.path)
             THEN Done(r1, "trusted", ReadTrusted(r.params.path, content))
             ELSE CallIsHealthy(r1)

\* safe-browser.js 156-360, once browserRequest has ended
BrowserAfterRequest(r, outcome) ==
    IF outcome.threw
    THEN Done([r EXCEPT !.orig = outcome], "upstream_failed",
              BrowserCaught(r.params, outcome.message))
    ELSE LET text == TextToScan(r.params, outcome.value)
             r1 == [r EXCEPT !.orig = outcome.value, !.content = text]
         IN  IF text = <<>>
             THEN Done(r1, "not_scanned", BrowserNotScanned(r.params, outcome.value))
             ELSE CallIsHealthy(r1)

---------------------------------------------------------------------------
(* Concurrent isHealthy calls on the LLMGuardClient of one tool *)

Callers == {"a", "b"}
Client == "safe_read"

CallerIdle ==
    [pc |-> "idle", at |-> 0, seen |-> NewHealthCache, probed |-> FALSE,
     result |-> Null]

\* mutant: a cached failure is returned whatever its age
IsHealthyBegin_TrustsCachedFailure(cache, t) ==
    IF CacheFresh(cache, t) \/ cache.healthy = Val(FALSE)
    THEN [pc |-> "returned", at |-> t, seen |-> cache, probed |-> FALSE,
          result |-> cache.healthy]
    ELSE [pc |-> "probing", at |-> t, seen |-> cache, probed |-> TRUE,
          result |-> Null]

\* llm-guard-client.js 19-29: up to the return of the cached value, or up to
\* `await fetch(.../health)`
IsHealthyBegin(cache, t) ==
    IF CacheFresh(cache, t)
    THEN [pc |-> "returned", at |-> t, seen |-> cache, probed |-> FALSE,
          result |-> cache.healthy]
    ELSE [pc |-> "probing", at |-> t, seen |-> cache, probed |-> TRUE,
          result |-> Null]

\* llm-guard-client.js 32-40: the probe ends, isHealthy returns
IsHealthyEnd(c, cache) ==
    [c EXCEPT !.pc = "returned", !.result = cache.healthy]

---------------------------------------------------------------------------
(* One scanInput / scanOutput call on an LLMGuardClient *)

Methods == {"scanInput", "scanOutput"}

\* POST /scan/input for scanInput, POST /scan/output for scanOutput
Endpoint(method) == IF method = "scanInput" THEN "/scan/input" ELSE "/scan/output"

\* response.status values the service may answer with
Statuses == {200, 404, 500}

\* response.ok
ResponseOk(status) == status >= 200 /\ status <= 299

\* `LLM Guard returned ${response.status}`
ErrStatus(status) == <<"LLM Guard returned ", ToString(status)>>

ErrRefused == <<"connect ECONNREFUSED 127.0.0.1:8765">>

CallIdle ==
    [pc |-> "idle", method |-> "none", endpoint |-> "none", content |-> <<>>,
     at |-> 0, timer |-> FALSE, fetched |-> "none", status |-> Null,
     body |-> "none", result |-> Null]

\* llm-guard-client.js 50-66 / 83-94: the abort timer is armed, fetch is awaited
ScanBegin(method, content, t) ==
    [CallIdle EXCEPT !.pc = "fetching", !.method = method,
                     !.endpoint = Endpoint(method), !.content = content,
                     !.at = t, !.timer = TRUE, !.fetched = "pending"]

\* the catch block, lines 73-76 / 101-104: clearTimeout, rethrow
ScanThrows(c, message) ==
    [c EXCEPT !.pc = "threw", !.timer = FALSE, !.result = Val(Threw(message))]

\* mutant: the status of the response is not looked at
ScanAfterFetch_IgnoresStatus(c, status) ==
    [c EXCEPT !.pc = "reading_body", !.timer = FALSE, !.fetched = "resolved",
              !.status = Val(status)]

\* lines 65-72 / 94-100: fetch resolved with a response; clearTimeout, then
\* the status check, then `await response.json()`
ScanAfterFetch(c, status) ==
    LET c1 == [c EXCEPT !.timer = FALSE, !.fetched = "resolved",
                        !.status = Val(status)]
    IN  IF ~ResponseOk(status)
        THEN ScanThrows(c1, ErrStatus(status))
        ELSE [c1 EXCEPT !.pc = "reading_body"]

\* fetch rejected: the transport failed, or the timer aborted the request
ScanFetchRejected(c, how, message) ==
    ScanThrows([c EXCEPT !.fetched = how], message)

\* line 72 / 100: response.json() ended
ScanAfterBody(c, outcome) ==
    IF outcome.threw
    THEN ScanThrows([c EXCEPT !.body = "failed"], outcome.message)
    ELSE [c EXCEPT !.pc = "returned", !.body = "parsed",
                   !.result = Val(Returned(outcome.value))]

\* how response.json() can end: the service's JSON, or a broken stream
ResponseBodies(content) == {Returned(Aggregate(content)), Threw(ErrBody)}

---------------------------------------------------------------------------
(* Actions *)

WebFetchCall ==
    /\ req.pc = "idle"
    /\ req' = Call("safe_web_fetch", [url |-> URL])
    /\ UNCHANGED <<now, ticks, service, fallbackOnError, healthCache, callers, call, plugin, strip>>

WebFetchReturns ==
    /\ req.pc = "upstream" /\ req.tool = "safe_web_fetch"
    /\ \E originalResult \in WebOriginalResults :
           req' = WebAfterOriginal(req, originalResult)
    /\ UNCHANGED <<now, ticks, service, fallbackOnError, healthCache, callers, call, plugin, strip>>

SafeReadCall ==
    /\ req.pc = "idle"
    /\ \E params \in ReadParams : req' = Call("safe_read", params)
    /\ UNCHANGED <<now, ticks, service, fallbackOnError, healthCache, callers, call, plugin, strip>>

SafeReadFileRead ==
    /\ req.pc = "upstream" /\ req.tool = "safe_read"
    /\ \E outcome \in FileReadOutcomes : req' = ReadAfterFile(req, outcome)
    /\ UNCHANGED <<now, ticks, service, fallbackOnError, healthCache, callers, call, plugin, strip>>

SafeBrowserCall ==
    /\ req.pc = "idle"
    /\ \E params \in BrowserParams :
           req' = IF BrowserRejects(params)
                  THEN Done(Call("safe_browser", params), "rejected",
                            BrowserRejected(params))
                  ELSE Call("safe_browser", params)
    /\ UNCHANGED <<now, ticks, service, fallbackOnError, healthCache, callers, call, plugin, strip>>

SafeBrowserRequestEnds ==
    /\ req.pc = "upstream" /\ req.tool = "safe_browser"
    /\ \E outcome \in BrowserResults(req.params) :
           req' = BrowserAfterRequest(req, outcome)
    /\ UNCHANGED <<now, ticks, service, fallbackOnError, healthCache, callers, call, plugin, strip>>

\* llm-guard-client.js 25-40: the probe of a tool request ends
ProbeEnds ==
    /\ req.pc = "health"
    /\ LET cache == ProbeResult(ProbeOutcome(service), req.probeAt)
       IN  /\ healthCache' = [healthCache EXCEPT ![req.tool] = cache]
           /\ req' = AfterHealth(req, cache.healthy.value)
    /\ UNCHANGED <<now, ticks, service, fallbackOnError, callers, call, plugin, strip>>

\* mutant: a scan request that fails marks the service unhealthy in the cache
ScanHeadersEnd_MarksUnhealthy ==
    /\ req.pc = "scan_headers"
    /\ \E o \in ScanHeaderOutcomes(service) :
           /\ req' = IF o.ok THEN [req EXCEPT !.pc = "scan_body"]
                     ELSE ScanRaised(req, o.message)
           /\ healthCache' =
                  IF o.ok THEN healthCache
                  ELSE [healthCache EXCEPT
                            ![req.tool] = [healthy |-> Val(FALSE), timestamp |-> now]]
    /\ UNCHANGED <<now, ticks, service, fallbackOnError, callers, call, plugin, strip>>

\* llm-guard-client.js 60-70: `await fetch(.../scan/input)` ends
ScanHeadersEnd ==
    /\ req.pc = "scan_headers"
    /\ \E o \in ScanHeaderOutcomes(service) :
           req' = IF o.ok THEN [req EXCEPT !.pc = "scan_body"]
                  ELSE ScanRaised(req, o.message)
    /\ UNCHANGED <<now, ticks, service, fallbackOnError, healthCache, callers, call, plugin, strip>>

\* llm-guard-client.js 72-76: `await response.json()` ends
ScanBodyEnds ==
    /\ req.pc = "scan_body"
    /\ \E o \in ScanBodyOutcomes(service, req.content) :
           req' = IF o.ok THEN ScanReturned(req, o.verdict)
                  ELSE ScanRaised(req, o.message)
    /\ UNCHANGED <<now, ticks, service, fallbackOnError, healthCache, callers, call, plugin, strip>>

\* the caller takes the response
Return ==
    /\ req.pc = "done"
    /\ req' = Idle
    /\ UNCHANGED <<now, ticks, service, fallbackOnError, healthCache, callers, call, plugin, strip>>

\* time passes; a probe is aborted after ProbeTimeout and a scan request
\* after ScanTimeout, so neither outlasts its timer.  Between tool requests
\* only the position of the clock relative to the TTL matters.
TickSteps == {HealthCacheTTL}

Tick ==
    /\ ticks < MaxTicks
    /\ \E d \in TickSteps :
           /\ req.pc = "health" => now + d - req.probeAt <= ProbeTimeout
           /\ req.pc = "scan_headers" => now + d - req.callAt <= ScanTimeout
           /\ now' = now + d
    /\ ticks' = ticks + 1
    /\ UNCHANGED <<service, fallbackOnError, healthCache, req, callers, call, plugin, strip>>

ServiceChanges ==
    /\ \E s \in ServiceStates \ {service} : service' = s
    /\ UNCHANGED <<now, ticks, fallbackOnError, healthCache, req, callers, call, plugin, strip>>

---------------------------------------------------------------------------
(* Plugin configuration and registration (index.js, the three constructors) *)

\* JS values of a configuration entry are tagged by their type: [bool |-> b],
\* [num |-> n], [str |-> s]; an absent entry reads as undefined
Undefined == [undefined |-> TRUE]

\* v !== false
StrictNotFalse(v) == v # [bool |-> FALSE]

\* the truthiness v || d tests
Truthy(v) ==
    IF Has(v, "bool") THEN v.bool
    ELSE IF Has(v, "num") THEN v.num # 0
    ELSE IF Has(v, "str") THEN v.str # ""
    ELSE FALSE

\* v || d
OrElse(v, d) == IF Truthy(v) THEN v ELSE d

BrowserTimeout == 30000

\* createSafeWebFetch({ config, runtime }): what the tool keeps of its config
createSafeWebFetch(config) ==
    [serviceUrl      |-> OrElse(config.serviceUrl, [str |-> "http://127.0.0.1:8765"]),
     timeout         |-> OrElse(config.timeout, [num |-> ScanTimeout]),
     fallbackOnError |-> StrictNotFalse(config.fallbackOnError)]

\* createSafeRead({ config, runtime })
createSafeRead(config) ==
    [serviceUrl      |-> OrElse(config.serviceUrl, [str |-> "http://127.0.0.1:8765"]),
     timeout         |-> OrElse(config.timeout, [num |-> ScanTimeout]),
     fallbackOnError |-> StrictNotFalse(config.fallbackOnError)]

\* createSafeBrowser({ config, runtime })
createSafeBrowser(config) ==
    [serviceUrl      |-> OrElse(config.serviceUrl, [str |-> "http://127.0.0.1:8765"]),
     browserUrl      |-> OrElse(config.browserUrl, [str |-> "http://127.0.0.1:18791"]),
     timeout         |-> OrElse(config.timeout, [num |-> ScanTimeout]),
     browserTimeout  |-> OrElse(config.browserTimeout, [num |-> BrowserTimeout]),
     fallbackOnError |-> StrictNotFalse(config.fallbackOnError)]

\* mutant: register(api) without the test of config.enabled
register_IgnoresEnabled(config) ==
    <<[name |-> "safe_web_fetch", tool |-> createSafeWebFetch(config)],
      [name |-> "safe_browser", tool |-> createSafeBrowser(config)],
      [name |-> "safe_read", tool |-> createSafeRead(config)]>>

\* the calls of api.registerTool that register(api) makes, in order
register(config) ==
    IF config.enabled = [bool |-> FALSE] THEN <<>>
    ELSE <<[name |-> "safe_web_fetch", tool |-> createSafeWebFetch(config)],
           [name |-> "safe_browser", tool |-> createSafeBrowser(config)],
           [name |-> "safe_read", tool |-> createSafeRead(config)]>>

\* api.pluginConfig as the host hands it over: any entry may be absent or of
\* any type, since nothing validates it before register runs
PluginConfigs ==
    [enabled         : {Undefined, [bool |-> TRUE], [bool |-> FALSE], [str |-> "false"]},
     fallbackOnError : {Undefined, [bool |-> TRUE], [bool |-> FALSE], [str |-> "no"],
                        [num |-> 0]},
     timeout         : {Undefined, [num |-> 1000], [num |-> 0], [num |-> -1],
                        [str |-> "5s"]},
     serviceUrl      : {Undefined, [str |-> "http://guard:9000"]},
     browserUrl      : {Undefined},
     browserTimeout  : {Undefined, [num |-> 10000]}]

PluginIdle == [pc |-> "loaded"]

---------------------------------------------------------------------------
(* One use of stripSecurityWrapper *)

MaxWraps == 2
MaxPageLen == 2

RECURSIVE SeqsUpTo(_, _)
SeqsUpTo(S, n) ==
    IF n = 0 THEN {<<>>}
    ELSE LET shorter == SeqsUpTo(S, n - 1)
         IN  shorter \cup {Append(p, x) : p \in shorter, x \in S}

\* page texts: words, line breaks and an injection phrase, no marker in them
Pages == SeqsUpTo({"hello", NL, INJECT}, MaxPageLen)

\* the texts of an original result: one wrapped page, or several in a row,
\* each next one on the same line or on a line of its own
RECURSIVE WrappedTexts(_)
WrappedTexts(n) ==
    IF n = 1 THEN {Wrap(page) : page \in Pages}
    ELSE LET fewer == WrappedTexts(n - 1)
         IN  fewer \cup {t \o gap \o Wrap(page) :
                            t \in fewer, gap \in {<<>>, <<NL>>}, page \in Pages}

StripIdle == [pc |-> "idle"]

Init ==
    /\ now = StartTime
    /\ ticks = 0
    /\ service \in ServiceStates
    /\ fallbackOnError \in BOOLEAN
    /\ healthCache = [t \in Tools |-> NewHealthCache]
    /\ req = Idle
    /\ callers = [c \in Callers |-> CallerIdle]
    /\ call = CallIdle
    /\ plugin = PluginIdle
    /\ strip = StripIdle

Next ==
    \/ WebFetchCall
    \/ WebFetchReturns
    \/ SafeReadCall
    \/ SafeReadFileRead
    \/ SafeBrowserCall
    \/ SafeBrowserRequestEnds
    \/ ProbeEnds
    \/ ScanHeadersEnd
    \/ ScanBodyEnds
    \/ Return
    \/ Tick
    \/ ServiceChanges

Spec == Init /\ [][Next]_vars

IsHealthyCall(c) ==
    /\ callers[c].pc = "idle"
    /\ callers' = [callers EXCEPT ![c] = IsHealthyBegin(healthCache[Client], now)]
    /\ UNCHANGED <<now, ticks, service, fallbackOnError, healthCache, req, call, plugin, strip>>

IsHealthyProbeEnds(c) ==
    /\ callers[c].pc = "probing"
    /\ LET cache == ProbeResult(ProbeOutcome(service), callers[c].at)
       IN  /\ healthCache' = [healthCache EXCEPT ![Client] = cache]
           /\ callers' = [callers EXCEPT ![c] = IsHealthyEnd(callers[c], cache)]
    /\ UNCHANGED <<now, ticks, service, fallbackOnError, req, call, plugin, strip>>

IsHealthyReturn(c) ==
    /\ callers[c].pc = "returned"
    /\ callers' = [callers EXCEPT ![c] = CallerIdle]
    /\ UNCHANGED <<now, ticks, service, fallbackOnError, healthCache, req, call, plugin, strip>>

ClientTickSteps == {1, HealthCacheTTL - 1}

ClientTick ==
    /\ ticks < MaxClientTicks
    /\ \E d \in ClientTickSteps :
           /\ \A c \in Callers :
                  callers[c].pc = "probing" => now + d - callers[c].at <= ProbeTimeout
           /\ now' = now + d
    /\ ticks' = ticks + 1
    /\ UNCHANGED <<service, fallbackOnError, healthCache, req, callers, call, plugin, strip>>

ClientNext ==
    \/ \E c \in Callers : IsHealthyCall(c)
    \/ \E c \in Callers : IsHealthyProbeEnds(c)
    \/ \E c \in Callers : IsHealthyReturn(c)
    \/ ClientTick
    \/ ServiceChanges

SpecClient == Init /\ [][ClientNext]_vars

\* the probe runs under an abort timer of ProbeTimeout (lines 26-27, 30), so
\* every probe ends, and a returned call is taken by its caller
SpecClientLive ==
    /\ Init /\ [][ClientNext]_vars
    /\ \A c \in Callers : WF_vars(IsHealthyProbeEnds(c)) /\ WF_vars(IsHealthyReturn(c))

\* scanInput(content, source) or scanOutput(prompt, output) is called
ScanCall ==
    /\ call.pc = "idle"
    /\ \E method \in Methods, content \in Contents :
           call' = ScanBegin(method, content, now)
    /\ UNCHANGED <<now, ticks, service, fallbackOnError, healthCache, req, callers, plugin, strip>>

\* the service sends its status line before the timer fires
ScanFetchResolves ==
    /\ call.pc = "fetching"
    /\ \E status \in Statuses : call' = ScanAfterFetch(call, status)
    /\ UNCHANGED <<now, ticks, service, fallbackOnError, healthCache, req, callers, plugin, strip>>

\* the connection fails
ScanFetchFails ==
    /\ call.pc = "fetching"
    /\ call' = ScanFetchRejected(call, "rejected", ErrRefused)
    /\ UNCHANGED <<now, ticks, service, fallbackOnError, healthCache, req, callers, plugin, strip>>

\* setTimeout(() => controller.abort(), this.timeout) fires
ScanTimerFires ==
    /\ call.pc = "fetching"
    /\ call.timer
    /\ now - call.at >= ScanTimeout
    /\ call' = ScanFetchRejected(call, "aborted", ErrAborted)
    /\ UNCHANGED <<now, ticks, service, fallbackOnError, healthCache, req, callers, plugin, strip>>

\* response.json() ends
ScanBodyRead ==
    /\ call.pc = "reading_body"
    /\ \E outcome \in ResponseBodies(call.content) :
           call' = ScanAfterBody(call, outcome)
    /\ UNCHANGED <<now, ticks, service, fallbackOnError, healthCache, req, callers, plugin, strip>>

\* the caller takes the verdict, or catches the error
ScanCallEnds ==
    /\ call.pc \in {"returned", "threw"}
    /\ call' = CallIdle
    /\ UNCHANGED <<now, ticks, service, fallbackOnError, healthCache, req, callers, plugin, strip>>

ScanTickSteps == {1000, ScanTimeout - 1000}

\* time passes; an armed timer fires no later than its delay
ScanTick ==
    /\ ticks < MaxScanTicks
    /\ \E d \in ScanTickSteps :
           /\ call.timer => now + d - call.at <= ScanTimeout
           /\ now' = now + d
    /\ ticks' = ticks + 1
    /\ UNCHANGED <<service, fallbackOnError, healthCache, req, callers, call, plugin, strip>>

ScanNext ==
    \/ ScanCall
    \/ ScanFetchResolves
    \/ ScanFetchFails
    \/ ScanTimerFires
    \/ ScanBodyRead
    \/ ScanCallEnds
    \/ ScanTick

SpecScan == Init /\ [][ScanNext]_vars

---------------------------------------------------------------------------
(* The host loads the plugin *)

\* register(api) runs once, with whatever configuration the host holds
Register ==
    /\ plugin.pc = "loaded"
    /\ \E config \in PluginConfigs :
           plugin' = [pc |-> "registered", config |-> config,
                      tools |-> register(config)]
    /\ UNCHANGED <<now, ticks, service, fallbackOnError, healthCache, req, callers, call, strip>>

SpecPlugin == Init /\ [][Register]_vars

---------------------------------------------------------------------------
(* safe_web_fetch prepares the text of an original result for the scan *)

\* const textToScan = stripSecurityWrapper(parsed.text)
StripCall ==
    /\ strip.pc = "idle"
    /\ \E text \in WrappedTexts(MaxWraps) :
           strip' = [pc |-> "stripped", text |-> text,
                     textToScan |-> stripSecurityWrapper(text)]
    /\ UNCHANGED <<now, ticks, service, fallbackOnError, healthCache, req, callers, call, plugin>>

SpecStrip == Init /\ [][StripCall]_vars

---------------------------------------------------------------------------
(* Properties *)

IsSuffix(suffix, text) ==
    /\ Len(suffix) <= Len(text)
    /\ SubSeq(text, Len(text) - Len(suffix) + 1, Len(text)) = suffix

Occurs(tok, text) == \E i \in 1..Len(text) : text[i] = tok

\* the scanner names a text mentions, in the order it mentions them
ThreatNamesIn(text) ==
    SelectSeq(text, LAMBDA tok : \E i \in 1..Len(ScannerNames) : tok = ScannerNames[i])

\* text is one warning line that names exactly `threats`, then `rest`
IsWarned(text, threats, rest) ==
    \E n \in 4..Len(text) :
        /\ text[1] = "[Security Warning: Threats detected - "
        /\ text[n - 2] = "]" /\ text[n - 1] = NL /\ text[n] = NL
        /\ ThreatNamesIn(SubSeq(text, 1, n)) = threats
        /\ SubSeq(text, n + 1, Len(text)) = rest

\* the object a tool answers with: safe_read returns it, the other two wrap
\* it as JSON text
Body(r) == IF r.tool = "safe_read" THEN r.resp ELSE r.resp.content

Answered(tool) == req.pc = "done" /\ req.tool = tool

GotVerdict(tool, valid) ==
    /\ Answered(tool)
    /\ req.scanEnd = "verdict"
    /\ req.verdict.value.is_valid = valid

\* C1: safe_web_fetch answers a verdict that is not valid with text = null,
\* blocked = true, an error message and the security block of the verdict, and
\* the page text is in no field of the response.
C1_WebFetchBlocksThreats ==
    GotVerdict("safe_web_fetch", FALSE) =>
        LET body == req.resp.content
            v == req.verdict.value
        IN  /\ body.text = Null
            /\ body.blocked = TRUE
            /\ body.error # <<>>
            /\ body.security =
                   [scanned |-> TRUE, blocked |-> TRUE, is_valid |-> FALSE,
                    risk_score |-> v.risk_score,
                    threats_detected |-> v.threats_detected]
            /\ DOMAIN req.resp = {"content"}
            /\ DOMAIN body = {"url", "status", "text", "blocked", "error", "security"}
            /\ body.url = req.orig.url /\ body.status = req.orig.status

C1_Witness ==
    /\ GotVerdict("safe_web_fetch", FALSE)
    /\ Occurs(INJECT, req.orig.text.value)
    /\ req.resp.content.security.threats_detected = <<"PromptInjection">>

\* C2: safe_web_fetch answers a valid verdict with blocked = false, the clean
\* security block, and the text exactly as the original tool returned it.
C2_WebFetchPassesClean ==
    GotVerdict("safe_web_fetch", TRUE) =>
        LET body == req.resp.content
        IN  /\ body.blocked = FALSE
            /\ body.security =
                   [scanned |-> TRUE, blocked |-> FALSE, is_valid |-> TRUE,
                    risk_score |-> 0, threats_detected |-> <<>>]
            /\ body.text = req.orig.text
            /\ body.text # Null
            /\ req.resp.details = body

C2_Witness ==
    /\ GotVerdict("safe_web_fetch", TRUE)
    /\ req.resp.content.text = Val(Wrap(<<"hello">>))
    /\ req.verdict.value.sanitized_content = <<"hello">>

\* C3: safe_read answers a verdict that is not valid with content that is a
\* warning line naming the detected threats followed by the sanitized content.
C3_ReadWarnsOnThreats ==
    GotVerdict("safe_read", FALSE) =>
        IsWarned(req.resp.content, req.verdict.value.threats_detected,
                 req.verdict.value.sanitized_content)

\* C4: in safe_browser, scanContent answers every verdict with content: the
\* sanitized content, preceded when the verdict is not valid by a warning line
\* that names every detected threat in the verdict's order; never the raw text.
C4_ScanContentWarns ==
    (Answered("safe_browser") /\ req.scanEnd = "verdict") =>
        LET v == req.verdict.value
        IN  /\ ~req.sc.value.threw
            /\ IF v.is_valid
               THEN req.sc.value.value.content = v.sanitized_content
               ELSE IsWarned(req.sc.value.value.content, v.threats_detected,
                             v.sanitized_content)

C4_Witness ==
    /\ Answered("safe_browser")
    /\ req.scanEnd = "verdict"
    /\ req.verdict.value.threats_detected = <<"PromptInjection", "Secrets">>
    /\ Occurs(SECRET, req.content)
    /\ ~Occurs(SECRET, req.sc.value.value.content)
    /\ req.resp.content.security.scanned

\* C5: safe_read never calls isHealthy or scanInput for a trusted path, and
\* answers with the sliced file content unmodified and
\* security = {scanned: false, trusted_path: true}.
C5_TrustedPathBypass ==
    (req.tool = "safe_read" /\ isTrustedPath(req.params.path)) =>
        /\ req.pc \in {"upstream", "done"}
        /\ req.nHealth = 0 /\ req.nProbe = 0 /\ req.nScan = 0
        /\ (req.pc = "done" /\ req.route # "upstream_failed") =>
               req.resp =
                   [success |-> TRUE,
                    content |-> ApplyOffsetLimit(req.orig.file, req.params),
                    path |-> req.params.path,
                    security |-> [scanned |-> FALSE, trusted_path |-> TRUE]]

C5_Witness ==
    /\ Answered("safe_read")
    /\ req.params.path = <<SEP, "tmp", SEP, "SOUL.md">>
    /\ req.route = "trusted"
    /\ Occurs(INJECT, req.resp.content)
    /\ Occurs(SECRET, req.resp.content)

\* safe_read found the scan service unreachable: isHealthy returned false, or
\* scanInput raised
ReadUnreachable ==
    /\ Answered("safe_read")
    /\ req.healthy = Val(FALSE) \/ req.scanEnd = "raised"

\* C6: when safe_read finds the service unreachable, by the health check or
\* only by the scan call, it answers with the original unredacted content and
\* a warning if fallbackOnError, and with an error and no content otherwise.
C6_ReadFallback ==
    ReadUnreachable =>
        IF fallbackOnError
        THEN /\ req.resp.success
             /\ req.resp.content = ApplyOffsetLimit(req.orig.file, req.params)
             /\ Has(req.resp, "warning") /\ req.resp.warning # <<>>
             /\ ~Has(req.resp, "error")
        ELSE /\ ~req.resp.success
             /\ Has(req.resp, "error") /\ req.resp.error # <<>>
             /\ ~Has(req.resp, "content")

C6_Witness ==
    /\ ReadUnreachable
    /\ req.scanEnd = "raised" /\ req.nProbe = 0 /\ req.healthy = Val(TRUE)
    /\ fallbackOnError
    /\ Occurs(SECRET, req.resp.content)

\* C7: when isHealthy returns false, safe_web_fetch does not call scanInput;
\* it keeps the original text with security.scanned = false and a warning if
\* fallbackOnError, and answers text = null with an error otherwise.
C7_WebFetchUnhealthy ==
    (Answered("safe_web_fetch") /\ req.healthy = Val(FALSE)) =>
        /\ req.nScan = 0 /\ req.scanEnd = "none"
        /\ IF fallbackOnError
           THEN /\ req.resp.content.text = req.orig.text
                /\ req.resp.content.security.scanned = FALSE
                /\ Has(req.resp.content.security, "warning")
                /\ ~Has(req.resp.content, "error")
           ELSE /\ req.resp.content.text = Null
                /\ Has(req.resp.content, "error")
                /\ req.resp.content.error # <<>>

C7_Witness ==
    /\ Answered("safe_web_fetch")
    /\ req.healthy = Val(FALSE)
    /\ ~fallbackOnError
    /\ req.nProbe = 0
    /\ service = "healthy"

\* the text a tool got from the original tool is in its answer
CarriesOriginal(r) ==
    CASE r.tool = "safe_web_fetch" -> r.resp.content.text = r.orig.text
      [] r.tool = "safe_read" -> r.resp.content = r.content
      [] OTHER ->
             CASE r.params.action = "snapshot" /\ r.orig.format = "ai" ->
                      IsSuffix(r.content, r.resp.content.snapshot)
               [] r.params.action = "snapshot" ->
                      r.resp.content.nodes = r.orig.nodes
               [] r.params.action = "console" ->
                      r.resp.content.messages = r.orig.messages
               [] OTHER -> IsSuffix(r.content, r.resp.content.value)

\* the answer of a tool holds no content
CarriesNoContent(r) ==
    CASE r.tool = "safe_web_fetch" -> r.resp.content.text = Null
      [] r.tool = "safe_read" -> ~Has(r.resp, "content")
      [] OTHER -> DOMAIN r.resp.content = {"error", "success", "action"}

\* the answer of a tool is marked as not scanned, with `reason`
MarkedUnscanned(r, reason) ==
    CASE r.tool = "safe_read" ->
             /\ ~Has(r.resp, "security")
             /\ IsSuffix(reason, r.resp.warning)
      [] OTHER ->
             /\ Body(r).security.scanned = FALSE
             /\ IsSuffix(reason, Body(r).security.warning)

\* C8: when scanInput raises, each tool answers as in the unhealthy case: the
\* original content marked unscanned if fallbackOnError, no content and an
\* error otherwise; the answer carries the failure reason in both cases.
C8_ScanFailureBranches ==
    (req.pc = "done" /\ req.scanEnd = "raised") =>
        /\ req.message # <<>>
        /\ IF fallbackOnError
           THEN /\ CarriesOriginal(req)
                /\ MarkedUnscanned(req, req.message)
                /\ ~Has(Body(req), "error")
           ELSE /\ CarriesNoContent(req)
                /\ IsSuffix(req.message, Body(req).error)

C8_Witness ==
    /\ Answered("safe_browser")
    /\ req.scanEnd = "raised"
    /\ req.message = ErrStatus500
    /\ fallbackOnError
    /\ req.params.action = "act"

\* C10: after a scan call that was aborted or failed, the answer reports neither
\* scanned = true nor is_valid = true.
C10_FailedScanNeverClean ==
    (req.pc = "done" /\ req.scanEnd = "raised" /\ Has(Body(req), "security")) =>
            /\ Body(req).security.scanned = FALSE
            /\ Has(Body(req).security, "is_valid") => ~Body(req).security.is_valid
            /\ Has(Body(req).security, "blocked") => ~Body(req).security.blocked

C10_Witness ==
    /\ Answered("safe_web_fetch")
    /\ req.scanEnd = "raised"
    /\ req.message = ErrAborted
    /\ fallbackOnError
    /\ req.resp.content.security.scanned = FALSE

\* a caller inside isHealthy, or just returned from it
InIsHealthy(c) == callers[c].pc # "idle"

\* C9 (state part): an isHealthy call made less than the TTL after the cached
\* observation returns the cached value and issues no probe; a call made more
\* than the TTL after it issues a probe.
C9_CachedWithinTTL ==
    \A c \in Callers :
        InIsHealthy(c) =>
            LET k == callers[c]
            IN  /\ (k.seen.healthy # Null /\ k.at - k.seen.timestamp < HealthCacheTTL)
                       => (k.pc = "returned" /\ ~k.probed /\ k.result = k.seen.healthy)
                /\ (k.seen.healthy # Null /\ k.at - k.seen.timestamp > HealthCacheTTL)
                       => k.probed

\* C9 (step part): the cache changes only when a probe ends, so a change of
\* the service's real state leaves the cached value as it is.
C9_CacheChangesOnlyByProbe ==
    healthCache' # healthCache =>
        \E c \in Callers : callers[c].pc = "probing" /\ callers'[c].pc = "returned"

\* C9: two isHealthy calls within the TTL window of the last probe return the
\* identical cached value and issue no probe, even if the service's real state
\* changed in between; the first call after the TTL has expired probes again.
C9_HealthCache == []C9_CachedWithinTTL /\ [][C9_CacheChangesOnlyByProbe]_vars

C9_Witness ==
    \E c1, c2 \in Callers :
        /\ c1 # c2
        /\ callers[c1].pc = "returned" /\ callers[c2].pc = "returned"
        /\ ~callers[c1].probed /\ ~callers[c2].probed
        /\ callers[c1].at < callers[c2].at
        /\ callers[c1].seen = callers[c2].seen
        /\ callers[c1].result = Val(TRUE) /\ callers[c2].result = Val(TRUE)
        /\ service = "down"

\* C11: scanInput and scanOutput return a value only when the service answered
\* with a success status and the body was read; on a non-success status they
\* raise an error whose message holds the status code; on a timeout or a
\* transport failure they raise; they return no value in any failure case.
C11_ScanRaisesOnFailure ==
    /\ call.pc = "returned" =>
           /\ call.fetched = "resolved" /\ call.body = "parsed"
           /\ call.status # Null /\ ResponseOk(call.status.value)
           /\ call.result = Val(Returned(Aggregate(call.content)))
    /\ (call.status # Null /\ ~ResponseOk(call.status.value)) =>
           /\ call.pc = "threw"
           /\ call.result.value.threw
           /\ Occurs(ToString(call.status.value), call.result.value.message)
    /\ (call.fetched \in {"rejected", "aborted"} \/ call.body = "failed") =>
           call.pc = "threw"
    /\ call.pc = "threw" =>
           /\ call.result # Null /\ call.result.value.threw
           /\ call.result.value.message # <<>>

C11_Witness ==
    /\ call.pc = "threw"
    /\ call.method = "scanOutput"
    /\ call.status = Val(404)
    /\ call.result = Val(Threw(<<"LLM Guard returned ", "404">>))

\* C19: a scanInput or scanOutput call still in progress is never older than
\* its per-call timeout, wherever the service stalls.
C19_ScanEndsWithinTimeout ==
    call.pc \in {"fetching", "reading_body"} => now - call.at <= ScanTimeout

\* the wrapped original tool failed
UpstreamFailed == req.pc = "done" /\ req.route = "upstream_failed"

NoScanClientUse(r) == r.nHealth = 0 /\ r.nProbe = 0 /\ r.nScan = 0

\* C12 (as stated): when the original tool fails, the caller gets the upstream
\* failure unchanged, and neither isHealthy nor scanInput is invoked.
C12_UpstreamFailureUnchanged ==
    UpstreamFailed =>
        /\ NoScanClientUse(req)
        /\ CASE req.tool = "safe_web_fetch" -> req.resp = req.orig
             [] req.tool = "safe_read" -> req.resp.error = req.orig.message
             [] OTHER -> req.resp.content.error = req.orig.message

\* C12 (amended): when the original tool fails, neither isHealthy nor
\* scanInput is invoked; safe_web_fetch returns the original result as it is,
\* safe_read returns {success: false, error: "Failed to read file: " + message,
\* path}, safe_browser returns {error: message, success: false, action}.
C12_UpstreamFailureReported ==
    UpstreamFailed =>
        /\ NoScanClientUse(req)
        /\ req.healthy = Null /\ req.scanEnd = "none"
        /\ CASE req.tool = "safe_web_fetch" -> req.resp = req.orig
             [] req.tool = "safe_read" ->
                    req.resp = [success |-> FALSE,
                                error |-> <<"Failed to read file: ">> \o req.orig.message,
                                path |-> req.params.path]
             [] OTHER ->
                    /\ req.resp.content = [error |-> req.orig.message,
                                            success |-> FALSE,
                                            action |-> req.params.action]
                    /\ req.resp.details = req.resp.content

C12_Witness ==
    /\ UpstreamFailed
    /\ req.tool = "safe_read"
    /\ req.orig = Threw(<<"ENOENT: no such file or directory">>)
    /\ req.resp.error = <<"Failed to read file: ", "ENOENT: no such file or directory">>

\* a probe or a scan call of this request failed
ServiceFailed ==
    /\ req.pc = "done"
    /\ req.healthy = Val(FALSE) \/ req.scanEnd = "raised"

\* C13: whatever fails in the health probe or the scan call, execute of each
\* tool returns a response and raises nothing; the response is the permissive
\* fallback if fallbackOnError and an error response otherwise.
C13_FailuresAbsorbed ==
    ServiceFailed =>
        /\ ~Has(req.resp, "threw")
        /\ req.route \in {"unhealthy", "scan_failed"}
        /\ IF fallbackOnError
           THEN /\ CarriesOriginal(req)
                /\ ~Has(Body(req), "error")
           ELSE /\ CarriesNoContent(req)
                /\ Has(Body(req), "error") /\ Body(req).error # <<>>

C13_Witness ==
    /\ ServiceFailed
    /\ req.tool = "safe_browser"
    /\ ~fallbackOnError
    /\ req.healthy = Val(FALSE)
    /\ req.sc = Val(Threw(<<"LLM Guard service unavailable and fallback disabled">>))
    /\ req.resp.content.error = <<"LLM Guard service unavailable and fallback disabled">>

\* safe_browser actions that yield no free-form text
NoTextAction(params) ==
    \/ params.action \in PassThroughActions
    \/ /\ params.action = "act"
       /\ Has(params, "request")
       /\ params.request.kind # "evaluate"

\* C14: for a safe_browser action that yields no free-form text, isHealthy and
\* scanInput are never invoked and the upstream result is returned with all
\* its fields unchanged plus a security block with scanned = false.
C14_NoTextActionsPassThrough ==
    (req.tool = "safe_browser" /\ NoTextAction(req.params)) =>
        /\ req.pc \in {"upstream", "done"}
        /\ NoScanClientUse(req)
        /\ (req.pc = "done" /\ req.route = "not_scanned") =>
               /\ DOMAIN req.resp.content = DOMAIN req.orig \cup {"security"}
               /\ \A k \in DOMAIN req.orig : req.resp.content[k] = req.orig[k]
               /\ req.resp.content.security.scanned = FALSE
               /\ DOMAIN req.resp.content.security = {"scanned", "note"}
        /\ req.pc = "done" => req.route \in {"not_scanned", "upstream_failed", "rejected"}

C14_Witness ==
    /\ Answered("safe_browser")
    /\ req.route = "not_scanned"
    /\ req.params.action = "act"
    /\ req.params.request.kind = "click"
    /\ Has(req.orig, "value") /\ Occurs(INJECT, req.orig.value)
    /\ req.resp.content.value = req.orig.value

\* C15: for every safe_browser sub-action whose text is scanned, the text the
\* result carries is the mediated text (warning prefix when invalid, then the
\* sanitized content) in place of the raw text, with a security block.
C15_BrowserSubstitutesText ==
    (Answered("safe_browser") /\ req.scanEnd = "verdict") =>
        /\ Has(req.resp.content, "security")
        /\ TextToScan(req.params, req.resp.content) = req.sc.value.value.content

\* the file's lines offset .. offset+limit-1 joined by newlines; the whole
\* file from offset when limit is absent
LinesOffsetLimit(file, params) ==
    LET lines == Split(file, NL)
        first == IF Has(params, "offset") THEN params.offset ELSE 0
        last == IF Has(params, "limit") THEN first + params.limit ELSE Len(lines)
    IN  Join([i \in 1..(IF last > Len(lines) THEN Len(lines) - first
                        ELSE IF last > first THEN last - first ELSE 0)
                 |-> lines[first + i]],
             <<NL>>)

\* safe_read has read the file of this request
FileWasRead ==
    /\ req.tool = "safe_read"
    /\ req.pc # "upstream"
    /\ req.route # "upstream_failed"

\* C16: in safe_read with offset and/or limit given, the text submitted to
\* scanInput, and the text returned on the trusted and fallback paths, is the
\* file's lines offset .. offset+limit-1 joined by newlines (limit = 0
\* included), and the whole file from offset when limit is absent.
C16_SliceBeforeScan ==
    (FileWasRead /\ (Has(req.params, "offset") \/ Has(req.params, "limit"))) =>
        /\ req.content = LinesOffsetLimit(req.orig.file, req.params)
        /\ (req.pc = "done" /\ Has(req.resp, "content") /\ req.route # "scanned") =>
               req.resp.content = LinesOffsetLimit(req.orig.file, req.params)

\* scanInput has been called in this request
ScanAttempted ==
    \/ req.nScan > 0
    \/ req.pc \in {"scan_headers", "scan_body"}
    \/ req.scanEnd # "none"

\* C17: in every request of every tool, scanInput is called only after
\* isHealthy returned true in the same request, and never after it returned
\* false.
C17_HealthBeforeScan ==
    /\ ScanAttempted => (req.nHealth >= 1 /\ req.healthy = Val(TRUE))
    /\ req.healthy = Val(FALSE) => ~ScanAttempted
    /\ req.pc = "health" => ~ScanAttempted

C17_Witness ==
    /\ req.pc = "scan_headers"
    /\ req.tool = "safe_browser"
    /\ req.nHealth = 1 /\ req.nProbe = 0
    /\ req.healthy = Val(TRUE)
    /\ service = "down"

\* C18 (state part): isHealthy raises nothing, it returns a boolean; a call
\* that finds healthy = false cached less than the TTL ago returns false
\* without a probe.
C18_CachedFailureAnswers ==
    \A c \in Callers :
        LET k == callers[c]
        IN  /\ k.pc = "returned" => k.result \in {Val(TRUE), Val(FALSE)}
            /\ (InIsHealthy(c) /\ k.seen.healthy = Val(FALSE)
                   /\ k.at - k.seen.timestamp < HealthCacheTTL)
                   => (k.pc = "returned" /\ ~k.probed /\ k.result = Val(FALSE))

\* C18 (step part): a probe that fails (timeout or refused connection, or a
\* non-success status) makes isHealthy return false and stores healthy = false
\* with the call's time in the cache.
C18_FailedProbeStored ==
    \A c \in Callers :
        (callers[c].pc = "probing" /\ callers'[c].pc = "returned"
             /\ ProbeOutcome(service) # "ok")
            => /\ callers'[c].result = Val(FALSE)
               /\ healthCache'[Client] =
                      [healthy |-> Val(FALSE), timestamp |-> callers[c].at]

\* C18: every failure of a health probe makes isHealthy return false and
\* caches healthy = false, so that later calls within the TTL return false
\* without contacting the service; isHealthy never raises.
C18_ProbeFailureCached == []C18_CachedFailureAnswers /\ [][C18_FailedProbeStored]_vars

C18_Witness ==
    \E c1, c2 \in Callers :
        /\ callers[c1].pc = "returned" /\ callers[c1].probed
        /\ callers[c1].result = Val(FALSE)
        /\ callers[c2].pc = "returned" /\ ~callers[c2].probed
        /\ callers[c2].result = Val(FALSE)
        /\ callers[c2].seen = [healthy |-> Val(FALSE), timestamp |-> callers[c1].at]
        /\ callers[c2].at > callers[c1].at
        /\ service = "healthy"

\* C20 (state part): within one request isHealthy is called at most once, at
\* most one probe and at most one scan call are issued, and a failed probe or
\* scan has ended the request.
C20_AtMostOneAttempt ==
    /\ req.nHealth <= 1 /\ req.nProbe <= 1 /\ req.nScan <= 1
    /\ (req.healthy = Val(FALSE) \/ req.scanEnd = "raised") =>
           (req.pc = "done" /\ req.route \in {"unhealthy", "scan_failed"})

\* C20 (step part): a probe or a scan call in progress either succeeds and
\* the request goes on, or the request ends with its response; it never goes
\* back to an earlier step.
C20_NoStepBack ==
    (req.pc \in {"health", "scan_headers", "scan_body"} /\ req' # req) =>
        \/ req'.pc = "done"
        \/ req.pc = "health" /\ req'.pc = "scan_headers" /\ req'.healthy = Val(TRUE)
        \/ req.pc = "scan_headers" /\ req'.pc = "scan_body"

\* C20: within one request no operation is retried: at most one health probe
\* and one scan call are issued, and a single failed attempt leads directly to
\* the fallback or error response.
C20_NoRetry == []C20_AtMostOneAttempt /\ [][C20_NoStepBack]_vars

C20_Witness ==
    /\ req.pc = "done"
    /\ req.route = "scan_failed"
    /\ req.nProbe = 1 /\ req.nScan = 1
    /\ req.message = ErrAborted
    /\ service = "healthy"

\* the terminal state a response shows
Terminal(r) ==
    LET B == Body(r)
    IN  IF Has(B, "blocked") /\ B.blocked = TRUE THEN "Blocked"
        ELSE IF Has(B, "error") \/ (Has(B, "success") /\ B.success = FALSE)
             THEN "Errored"
        ELSE IF \/ Has(B, "warning")
                \/ /\ Has(B, "security")
                   /\ \/ Has(B.security, "warning")
                      \/ Has(B.security, "is_valid") /\ ~B.security.is_valid
             THEN "Returned-warned"
        ELSE "Returned-clean"

\* the terminal states each path may end in
TerminalsOf(r) ==
    CASE r.route = "trusted" -> {"Returned-clean"}
      [] r.route \in {"unhealthy", "scan_failed"} ->
             IF fallbackOnError THEN {"Returned-warned"} ELSE {"Errored"}
      [] r.route = "scanned" ->
             IF r.verdict.value.is_valid THEN {"Returned-clean"}
             ELSE IF r.tool = "safe_web_fetch" THEN {"Blocked"}
             ELSE {"Returned-warned"}
      [] r.route = "upstream_failed" ->
             IF r.tool = "safe_web_fetch" THEN {"Errored", "Returned-clean"}
             ELSE {"Errored"}
      [] r.route = "rejected" -> {"Errored"}
      [] r.route = "not_scanned" -> {"Returned-clean"}
      [] OTHER -> {}

\* what a request did on each path
PathTaken(r) ==
    CASE r.route = "trusted" -> r.nHealth = 0 /\ r.nScan = 0
      [] r.route = "unhealthy" -> r.healthy = Val(FALSE) /\ r.nScan = 0
      [] r.route = "scan_failed" -> r.healthy = Val(TRUE) /\ r.scanEnd = "raised"
      [] r.route = "scanned" -> r.healthy = Val(TRUE) /\ r.scanEnd = "verdict"
      [] OTHER -> r.nHealth = 0 /\ r.nScan = 0

Rank(pc) ==
    CASE pc = "idle" -> 0
      [] pc = "upstream" -> 1
      [] pc = "health" -> 2
      [] pc = "scan_headers" -> 3
      [] pc = "scan_body" -> 4
      [] OTHER -> 5

C21_EndsInOneTerminal ==
    /\ req.pc # "done" => req.route = "none"
    /\ req.pc = "done" =>
           /\ PathTaken(req)
           /\ Terminal(req) \in TerminalsOf(req)

C21_NoRevisit ==
    req' # req =>
        \/ Rank(req'.pc) > Rank(req.pc)
        \/ req.pc = "done" /\ req' = Idle

AfterBothProbes(first, second) ==
    ProbeResult(ProbeOutcome(service), callers[second].at)

\* C22: when two isHealthy calls on one client both found the cache stale and
\* both probe, the cache (healthy flag and timestamp) ends the same whichever
\* probe ends first.
C22_RefreshCommutes ==
    (callers["a"].pc = "probing" /\ callers["b"].pc = "probing")
        => AfterBothProbes("a", "b") = AfterBothProbes("b", "a")

\* C23: once any tool has probed the service, a request through any other tool
\* within the TTL issues no probe of its own: a request waits for a probe only
\* when no tool's client holds a fresh observation.
C23_OneSharedHealthState ==
    req.pc = "health" =>
        \A t \in Tools : ~CacheFresh(healthCache[t], req.probeAt)

\* C24: an isHealthy call made exactly the TTL after the cached observation
\* returns the cached value without a probe.
C24_CachedAtExactlyTTL ==
    \A c \in Callers :
        LET k == callers[c]
        IN  (InIsHealthy(c) /\ k.seen.healthy # Null
                /\ k.at - k.seen.timestamp = HealthCacheTTL)
                => (~k.probed /\ k.result = k.seen.healthy)

\* C25: when the verdict is valid, safe_read returns as content exactly the
\* text it handed to scanInput, and scanContent of safe_browser returns exactly
\* the text it was given, which is the text the response of safe_browser
\* carries.
C25_ValidContentIdentical ==
    /\ GotVerdict("safe_read", TRUE) => req.resp.content = req.content
    /\ GotVerdict("safe_browser", TRUE) =>
           /\ req.sc.value.value.content = req.content
           /\ TextToScan(req.params, Body(req)) = req.content

C25_Witness ==
    /\ GotVerdict("safe_read", TRUE)
    /\ req.content # <<>>
    /\ req.resp.content = req.content

\* a policy value that is present but not of its type
Malformed(config) ==
    \/ config.fallbackOnError # Undefined /\ ~Has(config.fallbackOnError, "bool")
    \/ /\ config.timeout # Undefined
       /\ ~(Has(config.timeout, "num") /\ config.timeout.num > 0)

\* C26: a fallbackOnError that is not a boolean or a timeout that is not a
\* positive number makes tool creation fail: register creates no tool from
\* such a configuration.
C26_MalformedConfigFails ==
    (plugin.pc = "registered" /\ plugin.config.enabled # [bool |-> FALSE]
         /\ Malformed(plugin.config))
        => plugin.tools = <<>>

\* C29: register adds no tool when the configuration has enabled = false, and
\* otherwise registers exactly three tools, safe_web_fetch, safe_browser and
\* safe_read, each once.
C29_RegistersThreeOrNone ==
    plugin.pc = "registered" =>
        IF plugin.config.enabled = [bool |-> FALSE]
        THEN plugin.tools = <<>>
        ELSE /\ Len(plugin.tools) = 3
             /\ {plugin.tools[i].name : i \in 1..3}
                    = {"safe_web_fetch", "safe_browser", "safe_read"}

C29_Witness ==
    /\ plugin.pc = "registered"
    /\ plugin.config.enabled = [bool |-> FALSE]
    /\ plugin.tools = <<>>

\* the security block of an answered request that says the text was scanned
ScannedBlock(r) ==
    /\ r.pc = "done"
    /\ Has(Body(r), "security")
    /\ Body(r).security.scanned

\* C27: every security block with scanned = true that a tool answers with
\* holds is_valid and threats_detected, and is_valid is true exactly when
\* threats_detected is empty.
C27_ValidIffNoThreats ==
    ScannedBlock(req) =>
        LET security == Body(req).security
        IN  /\ Has(security, "is_valid") /\ Has(security, "threats_detected")
            /\ security.is_valid = (security.threats_detected = <<>>)

C27_Witness ==
    /\ ScannedBlock(req)
    /\ req.tool = "safe_web_fetch"
    /\ ~Body(req).security.is_valid
    /\ Body(req).security.threats_detected = <<"PromptInjection">>

WrapperMarkers == {NOTICE, BEGIN_MARK, SOURCE, DASHES, END_MARK}

\* C28: the text safe_web_fetch hands to scanInput holds no part of a wrapper
\* (notice, begin marker, Source line, separator, end marker), also when the
\* original text holds more than one wrapped block.
C28_NoMarkerLeft ==
    strip.pc = "stripped" =>
        \A tok \in WrapperMarkers : ~Occurs(tok, strip.textToScan)

\* the answer of a tool holds text that came from outside
CarriesText(r) ==
    LET B == Body(r)
    IN  CASE r.tool = "safe_web_fetch" ->
                 \/ Has(B, "unparsed")
                 \/ Has(B, "text") /\ B.text # Null /\ B.text.value # <<>>
          [] r.tool = "safe_read" -> Has(B, "content")
          [] OTHER -> ~Has(B, "error") /\ TextToScan(r.params, B) # <<>>

\* the answer says that its text was not scanned
SaysUnscanned(r) ==
    LET B == Body(r)
    IN  \/ Has(B, "warning")
        \/ /\ Has(B, "security")
           /\ ~B.security.scanned \/ Has(B.security, "warning")

\* C30: every answer of safe_web_fetch, safe_read and safe_browser that holds
\* text which did not pass through a successful scanInput carries
\* security.scanned = false or a warning.
C30_UnscannedTextMarked ==
    (req.pc = "done" /\ req.scanEnd # "verdict" /\ CarriesText(req))
        => SaysUnscanned(req)

\* C31: under every interleaving of isHealthy calls on one client, the
\* timestamp stored in the health cache never decreases.
C31_TimestampNeverDecreases ==
    [][healthCache'[Client].timestamp >= healthCache[Client].timestamp]_vars

InScan(r) == r.pc \in {"scan_headers", "scan_body"}

\* C32 (state part): a request whose scan failed leaves the healthy observation
\* of its tool's client in the cache.
C32_FailedScanStillHealthy ==
    (req.pc = "done" /\ req.scanEnd = "raised") =>
        healthCache[req.tool].healthy = Val(TRUE)

\* C32 (step part): no step of a scan call, ending well or badly, changes the
\* health cache; and a request that calls isHealthy within the TTL of a healthy
\* observation goes on to call scanInput.
C32_ScanKeepsCache ==
    /\ InScan(req) => healthCache' = healthCache
    /\ (req.pc = "upstream" /\ req'.nHealth = 1
            /\ CacheFresh(healthCache[req.tool], now)
            /\ healthCache[req.tool].healthy = Val(TRUE))
           => (req'.pc = "scan_headers" /\ healthCache' = healthCache)

\* C32: scanInput leaves the health cache unchanged whether it succeeds or
\* fails; a failed scan does not mark the service unhealthy, so later requests
\* within the TTL of a healthy observation still attempt a scan.
C32_ScanLeavesCache == []C32_FailedScanStillHealthy /\ [][C32_ScanKeepsCache]_vars

C32_Witness ==
    /\ req.pc = "done" /\ req.scanEnd = "raised"
    /\ req.nProbe = 0
    /\ CacheFresh(healthCache[req.tool], now)
    /\ healthCache[req.tool].healthy = Val(TRUE)

\* C33 (state part): a call made more than the TTL after a cached unhealthy
\* observation does not answer from the cache, it probes.
C33_StaleFailureProbes ==
    \A c \in Callers :
        LET k == callers[c]
        IN  (InIsHealthy(c) /\ k.seen.healthy = Val(FALSE)
                /\ k.at - k.seen.timestamp > HealthCacheTTL)
                => k.probed

\* C33 (step part): a probe that ends while the service is healthy makes
\* isHealthy return true and stores healthy = true, whatever other calls are
\* pending.
C33_HealthyProbeBelieved ==
    \A c \in Callers :
        (callers[c].pc = "probing" /\ callers'[c].pc = "returned"
             /\ service = "healthy")
            => /\ callers'[c].result = Val(TRUE)
               /\ healthCache'[Client].healthy = Val(TRUE)

\* C33: once the service is healthy, a call that reaches the health check more
\* than one TTL after the last unhealthy observation probes, every probe ends,
\* and a probe that ends while the service is healthy returns true (so the
\* tool goes on to scanInput): the unhealthy belief does not last, under every
\* interleaving of the calls.
C33_RecoversFromUnhealthy ==
    /\ []C33_StaleFailureProbes
    /\ [][C33_HealthyProbeBelieved]_vars
    /\ \A c \in Callers : callers[c].pc = "probing" ~> callers[c].pc = "returned"

C33_Witness ==
    \E c \in Callers :
        /\ callers[c].pc = "returned" /\ callers[c].probed
        /\ callers[c].seen.healthy = Val(FALSE)
        /\ callers[c].at - callers[c].seen.timestamp > HealthCacheTTL
        /\ callers[c].result = Val(TRUE)
        /\ service = "healthy"

\* the normalised path lies under a .openclaw/workspace or .openclaw/memory
\* directory
InsideOpenclawDirs(filePath) ==
    \/ ContainsOpenclawDir(resolve(filePath), "workspace")
    \/ ContainsOpenclawDir(resolve(filePath), "memory")

\* C34: safe_read answers without a scan, as for a trusted path, only when the
\* normalised path lies inside .openclaw/workspace or .openclaw/memory; a file
\* outside them is scanned whatever its name.
C34_TrustedOnlyInsideDirs ==
    (Answered("safe_read") /\ req.route = "trusted")
        => InsideOpenclawDirs(req.params.path)

\* the answer of safe_web_fetch to the fetch result of request r with another
\* page text in it, when the scan of that text ends with the same risk score
\* and the same threats
BlockedForPage(r, page) ==
    WebScanned(Put(r.orig, "text", Val(Wrap(page))),
               [sanitized_content |-> page, is_valid |-> FALSE,
                risk_score |-> r.verdict.value.risk_score,
                threats_detected |-> r.verdict.value.threats_detected])

\* the page texts a second fetch result may hold: those of the requests, and
\* one more that the scanners judge as they judge <<INJECT>>
AlternativePages == Contents \cup {<<INJECT, NL, "hello">>}

\* C35: the blocked answer of safe_web_fetch does not depend on the page text:
\* a fetch result that differs only in its text and gets a failing verdict
\* with the same risk_score and threats_detected is answered identically.
C35_BlockedIgnoresText ==
    GotVerdict("safe_web_fetch", FALSE) =>
        \A page \in AlternativePages : BlockedForPage(req, page) = req.resp

C35_Witness ==
    /\ GotVerdict("safe_web_fetch", FALSE)
    /\ \E page \in AlternativePages :
           /\ Wrap(page) # req.orig.text.value
           /\ ~Aggregate(page).is_valid
           /\ Aggregate(page).risk_score = req.verdict.value.risk_score
           /\ Aggregate(page).threats_detected = req.verdict.value.threats_detected
           /\ BlockedForPage(req, page) = req.resp

=============================================================================
